---------------------------- MODULE Spec2Model ----------------------------
(***************************************************************************)
(* A model of the bwt-zip compressor (src/bwtzip.py) and decompressor      *)
(* (src/bwtunzip.py).                                                      *)
(*                                                                         *)
(* Characters are their code points (ord), strings are sequences of code   *)
(* points, bit strings ("0101") are sequences over {0, 1}, and a file is a *)
(* sequence of bytes 0..255.  Python's None is the value None below.       *)
(* Python indices are 0-based; the sequences here are 1-based, so the      *)
(* element the code calls s[i] is s[i + 1].                                *)
(***************************************************************************)
EXTENDS Integers, Sequences, FiniteSets, TLC

VARIABLES
    pc,            \* position of the run: which method runs next
    err,           \* the exception that ended the run, "none" while there is none
    input,         \* the text handed to Compress (the content of the input file)
    file,          \* bwtencoded.bin: [exists, bytes]
    recovered,     \* recovered.txt: [exists, text]
    \* ---- Compress (src/bwtzip.py)
    text,          \* Compress.text / BWT_Encoding.text
    characters,    \* Compress.characters, shared with HuffManEncoding.character
    unique,        \* Compress.unique, shared with HuffManEncoding.unique (the heap)
    to_write,      \* Compress.to_write
    bwt_string,    \* BWT_Encoding.bwt_string
    emitted,       \* the (character, counter) pairs message has added to to_write
    \* ---- Decompress (src/bwtunzip.py)
    bit_string,    \* Decompress.bit_string / EliasDecoding.bit_string
    text_length,   \* Decompress.text_length
    no_unique,     \* Decompress.no_unique
    end_index,     \* Decompress.end_index
    unique_chars,  \* Decompress.unique_chars
    huffman_tree,  \* HuffmanDecoding: the trie, a function from paths to payloads
    bwt_text,      \* Decompress.bwt_text / BWT_Decoding.bwt_text
    dtext,         \* Decompress.text
    \* ---- BWT_Decoding
    rank,          \* BWT_Decoding.rank
    order,         \* BWT_Decoding.order
    answer,        \* BWT_Decoding.answer
    counter,       \* local counter of BWT_Decoding.decode
    walk_i,        \* loop variable i of BWT_Decoding.decode
    \* ---- EliasEncoding / EliasDecoding
    arg_value,     \* the argument given to EliasEncoding
    value,         \* EliasEncoding.value
    elias_string,  \* EliasEncoding.elias_string
    start_index,   \* EliasDecoding.start_index
    decoded,       \* EliasDecoding.decoded
    end_pointer    \* EliasDecoding.end_pointer

ioVars    == <<input, file, recovered>>
compVars  == <<text, characters, unique, to_write, bwt_string, emitted>>
decVars   == <<bit_string, text_length, no_unique, end_index, unique_chars,
               huffman_tree, bwt_text, dtext>>
bwtVars   == <<rank, order, answer, counter, walk_i>>
eliasVars == <<arg_value, value, elias_string, start_index, decoded, end_pointer>>
vars      == <<pc, err, ioVars, compVars, decVars, bwtVars, eliasVars>>

-----------------------------------------------------------------------------
(* Bounds of the model.                                                    *)
MaxLen      == 5   \* longest input text given to Compress
MaxBwtLen   == 5   \* longest text given to the BWT encoder on its own
MaxValue    == 33  \* largest integer given to EliasEncoding on its own
MaxSuffix   == 3   \* longest bit string that follows an Elias code
MaxBits     == 8   \* longest raw bit string given to EliasDecoding
MaxCount    == 4   \* largest count in a frequency table given to HuffManEncoding
MaxForged   == 4   \* longest symbol buffer of a hand-made stream

(* Program constants.                                                      *)
Base        == 36  \* ord(char) - 36
TableSize   == 91  \* [0] * 91
Dollar      == 36  \* '$'
AsciiWidth  == 7   \* zfill(7), bit_string[end_index : end_index + 7]
ByteWidth   == 8
None        == -1

-----------------------------------------------------------------------------
(* Strings, bits and Python's slices.                                      *)

Min(a, b) == IF a < b THEN a ELSE b

RECURSIVE Pow2(_)
Pow2(k) == IF k <= 0 THEN 1 ELSE 2 * Pow2(k - 1)

\* s[a:b] for 0 <= a, 0 <= b: clipped to the string, empty when a >= b.
Slice(s, a, b) == SubSeq(s, a + 1, Min(b, Len(s)))

\* s[a:]
SliceFrom(s, a) == SubSeq(s, a + 1, Len(s))

\* c * k: the string of k copies of the character c (empty for k <= 0).
Repeat(c, k) == [j \in 1..k |-> c]

\* All sequences over S of length lo..hi.
SeqsOver(S, lo, hi) == UNION {[1..n -> S] : n \in lo..hi}

BitStrings(lo, hi) == SeqsOver({0, 1}, lo, hi)

\* Python's comparison of two strings: s < t.
RECURSIVE StrLess(_, _)
StrLess(s, t) ==
    IF t = <<>> THEN FALSE
    ELSE IF s = <<>> THEN TRUE
    ELSE IF Head(s) # Head(t) THEN Head(s) < Head(t)
    ELSE StrLess(Tail(s), Tail(t))

\* bin(v)[2:] for v >= 0.
RECURSIVE Bin(_)
Bin(v) == IF v < 2 THEN <<v>> ELSE Append(Bin(v \div 2), v % 2)

\* v.bit_length()
BitLength(v) == IF v = 0 THEN 0 ELSE Len(Bin(v))

\* s.zfill(w)
ZFill(s, w) == IF Len(s) >= w THEN s ELSE [j \in 1..(w - Len(s)) |-> 0] \o s

\* int(s, 2) of a nonempty bit string.
RECURSIVE IntOfBits(_)
IntOfBits(s) ==
    IF s = <<>> THEN 0 ELSE 2 * IntOfBits(SubSeq(s, 1, Len(s) - 1)) + s[Len(s)]

IsPrefix(s, t) == Len(s) <= Len(t) /\ SubSeq(t, 1, Len(s)) = s

-----------------------------------------------------------------------------
(* EliasEncoding (src/bwtzip.py)                                           *)

\* The while loop of elias_encoding: value, length and bit_array as the loop
\* leaves them.
RECURSIVE EliasEncodeLoop(_, _, _)
EliasEncodeLoop(val, length, bit_array) ==
    IF val > 1
    THEN LET val2   == length - 1
             len2   == BitLength(val2)
             \* mask & value with mask = ~(1 << length - 1): bit length-1 cleared
             temp   == IF (val2 \div Pow2(len2 - 1)) % 2 = 1
                       THEN val2 - Pow2(len2 - 1) ELSE val2
         IN  EliasEncodeLoop(val2, len2, Append(bit_array, ZFill(Bin(temp), len2)))
    ELSE [value |-> val, bit_array |-> bit_array]

\* JoinReversed with the list joined front to back: the components appended,
\* not prepended.
RECURSIVE JoinForward(_)
JoinForward(bit_array) ==
    IF bit_array = <<>> THEN <<>>
    ELSE Head(bit_array) \o JoinForward(Tail(bit_array))

\* for y in range(len(bit_array) - 1, -1, -1): elias_string += bit_array[y]
RECURSIVE JoinReversed(_)
JoinReversed(bit_array) ==
    IF bit_array = <<>> THEN <<>>
    ELSE bit_array[Len(bit_array)]
           \o JoinReversed(SubSeq(bit_array, 1, Len(bit_array) - 1))

\* EliasEncoding(v): the object's fields after the constructor.
EliasEncodingObj(v) ==
    LET r == EliasEncodeLoop(v, BitLength(v), <<Bin(v)>>)
    IN  [value |-> r.value, elias_string |-> JoinReversed(r.bit_array)]

\* EliasEncoding(v).get_elias_string()
EliasEncoding(v) == EliasEncodingObj(v).elias_string

-----------------------------------------------------------------------------
(* EliasDecoding (src/bwtunzip.py)                                         *)

\* EliasDecodeLoop with the "+ 1" of the next component's width left out.
RECURSIVE EliasDecodeLoopNoInc(_, _, _, _)
EliasDecodeLoopNoInc(bs, i, endp, val) ==
    IF i < Len(bs)
    THEN IF bs[i + 1] = 0
         THEN LET val2 == IntOfBits(<<1>> \o Slice(bs, i + 1, endp))
                  i2   == i + val
              IN  EliasDecodeLoopNoInc(bs, i2, val2 + i2, val2)
         ELSE [decoded     |-> IntOfBits(<<1>> \o Slice(bs, i + 1, endp)),
               end_pointer |-> endp]
    ELSE [decoded |-> 0, end_pointer |-> endp]

RECURSIVE EliasDecodeLoopFromOne(_, _, _, _)
EliasDecodeLoopFromOne(bs, i, endp, val) ==
    IF i < Len(bs)
    THEN IF bs[i + 1] = 0
         THEN LET val2 == IntOfBits(<<1>> \o Slice(bs, i + 1, endp)) + 1
                  i2   == i + val
              IN  EliasDecodeLoopFromOne(bs, i2, val2 + i2, val2)
         ELSE [decoded     |-> IntOfBits(<<1>> \o Slice(bs, i + 1, endp)),
               end_pointer |-> endp]
    ELSE [decoded |-> 1, end_pointer |-> endp]

\* The while loop of decode; val is the local "value".  The loop never raises:
\* a slice past the end of the string is cut short, and when i runs past the
\* end the loop simply ends with decoded still 0.
RECURSIVE EliasDecodeLoop(_, _, _, _)
EliasDecodeLoop(bs, i, endp, val) ==
    IF i < Len(bs)
    THEN IF bs[i + 1] = 0
         THEN LET val2 == IntOfBits(<<1>> \o Slice(bs, i + 1, endp)) + 1
                  i2   == i + val
              IN  EliasDecodeLoop(bs, i2, val2 + i2, val2)
         ELSE [decoded     |-> IntOfBits(<<1>> \o Slice(bs, i + 1, endp)),
               end_pointer |-> endp]
    ELSE [decoded |-> 0, end_pointer |-> endp]

\* EliasDecoding(bit_string, start_index).get_decode()
EliasDecoding(bs, start) == EliasDecodeLoop(bs, start, start + 1, 1)

-----------------------------------------------------------------------------
(* Python lists of length 91 indexed by ord(char) - 36.                    *)

\* The cell a Python list of length 91 reads or writes for index idx: a
\* negative index counts from the end, anything else out of 0..90 raises
\* IndexError (None here).
PyIndex(idx) ==
    IF idx >= 0 /\ idx < TableSize THEN idx
    ELSE IF idx < 0 /\ idx >= -TableSize THEN idx + TableSize
    ELSE None

\* A cell of Compress.characters: the list starts as counts (ints) and
\* HuffManEncoding.append turns the cells of the symbols into code strings.
IntCell(n) == [isstr |-> FALSE, n |-> n, s |-> <<>>]
StrCell(s) == [isstr |-> TRUE, n |-> 0, s |-> s]

\* [0] * 91
ZeroTable == [j \in 0..(TableSize - 1) |-> IntCell(0)]

-----------------------------------------------------------------------------
(* SuffixArray and BWT_Encoding (src/bwtzip.py)                            *)

\* naive_suffix_array: the suffixes (text[i:], i) sorted, as 1-indexed
\* positions.  The suffixes of one text all differ (in length), so the k-th
\* of the sorted list is the one with exactly k - 1 smaller suffixes.
SuffixArray(t) ==
    [k \in 1..Len(t) |->
        CHOOSE y \in 1..Len(t) :
            Cardinality({z \in 1..Len(t) :
                StrLess(SliceFrom(t, z - 1), SliceFrom(t, y - 1))}) = k - 1]

\* BWT_Encoding with the character at the suffix taken, not the one before it.
BWT_EncodingFirstColumn(t) ==
    LET suffix_array == SuffixArray(t)
    IN  [k \in 1..Len(t) |-> t[((suffix_array[k] + Len(t) - 1) % Len(t)) + 1]]

\* BWT_Encoding.bwt: bwt_string += text[(y + len(text) - 2) % len(text)]
BWT_Encoding(t) ==
    LET suffix_array == SuffixArray(t)
    IN  [k \in 1..Len(t) |-> t[((suffix_array[k] + Len(t) - 2) % Len(t)) + 1]]

-----------------------------------------------------------------------------
(* HuffManEncoding (src/bwtzip.py)                                         *)

\* Python's order on the heap's tuples (count, string).
TupleLess(a, b) == a[1] < b[1] \/ (a[1] = b[1] /\ StrLess(a[2], b[2]))

\* heapq.heappush.  The heap is kept here as the sorted list of its items:
\* heappop only ever takes the smallest item, and the items (disjoint symbol
\* strings) are all different, so the order of the rest is not observable.
RECURSIVE HeapPush(_, _)
HeapPush(heap, x) ==
    IF heap = <<>> THEN <<x>>
    ELSE IF TupleLess(x, Head(heap)) THEN <<x>> \o heap
    ELSE <<Head(heap)>> \o HeapPush(Tail(heap), x)

\* heapq.heapify
RECURSIVE Heapify(_)
Heapify(list) ==
    IF list = <<>> THEN <<>>
    ELSE HeapPush(Heapify(Tail(list)), Head(list))

\* HuffManEncoding.append: character[index] += value, and when that raises
\* (the cell still holds the int count) character[index] = value.
HuffAppend(character, index, bit) ==
    [character EXCEPT ![index] =
        IF @.isstr THEN StrCell(Append(@.s, bit)) ELSE StrCell(<<bit>>)]

\* for char in node[1]: self.append(ord(char) - 36, bit)
RECURSIVE HuffAppendAll(_, _, _)
HuffAppendAll(character, str, bit) ==
    IF str = <<>> THEN character
    ELSE HuffAppendAll(HuffAppend(character, Head(str) - Base, bit), Tail(str), bit)

\* The while loop of huffman_encoding.
RECURSIVE HuffmanLoop(_, _)
HuffmanLoop(character, heap) ==
    IF Len(heap) > 1
    THEN LET left  == heap[1]
             right == heap[2]
             rest  == SubSeq(heap, 3, Len(heap))
             c1    == HuffAppendAll(character, left[2], 0)
             c2    == HuffAppendAll(c1, right[2], 1)
         IN  HuffmanLoop(c2, HeapPush(rest, <<left[1] + right[1], left[2] \o right[2]>>))
    ELSE [character |-> character, unique |-> heap]

\* reverse_string
RECURSIVE ReverseString(_)
ReverseString(s) ==
    IF s = <<>> THEN <<>>
    ELSE <<s[Len(s)]>> \o ReverseString(SubSeq(s, 1, Len(s) - 1))

\* reverse_all over the symbols of get_unique_characters().
RECURSIVE ReverseAll(_, _)
ReverseAll(character, str) ==
    IF str = <<>> THEN character
    ELSE ReverseAll([character EXCEPT ![Head(str) - Base] = StrCell(ReverseString(@.s))],
                    Tail(str))

\* HuffManEncoding(characters, unique): the constructor.  get_unique_characters
\* raises IndexError on an empty heap, and reverse_string raises TypeError on a
\* cell that still holds its int count (no merge ever appended a bit to it).
HuffManEncoding(chars, uniq) ==
    LET built == HuffmanLoop(chars, Heapify(uniq))
    IN  IF built.unique = <<>>
        THEN [err |-> "IndexError", character |-> built.character, unique |-> built.unique]
        ELSE IF \E j \in 1..Len(built.unique[1][2]) :
                    ~built.character[built.unique[1][2][j] - Base].isstr
        THEN [err |-> "TypeError", character |-> built.character, unique |-> built.unique]
        ELSE [err       |-> "none",
              character |-> ReverseAll(built.character, built.unique[1][2]),
              unique    |-> built.unique]

-----------------------------------------------------------------------------
(* Compress (src/bwtzip.py)                                                *)

\* header, the counting loop: self.characters[ord(char) - 36] += 1.  A code
\* point below 36 gives a negative index, which Python takes from the end of
\* the list; one above 126 raises IndexError.
RECURSIVE CountChars(_, _)
CountChars(chars, t) ==
    IF t = <<>> THEN [err |-> "none", characters |-> chars]
    ELSE LET index == PyIndex(Head(t) - Base)
         IN  IF index = None
             THEN [err |-> "IndexError", characters |-> chars]
             ELSE CountChars([chars EXCEPT ![index] = IntCell(@.n + 1)], Tail(t))

\* header, the second loop: (number of occurrences, character) for every cell
\* with a count, in the order of the cells.
RECURSIVE UniqueFrom(_, _)
UniqueFrom(chars, i) ==
    IF i >= TableSize THEN <<>>
    ELSE (IF chars[i].n > 0 THEN <<(<<chars[i].n, <<i + Base>>>>)>> ELSE <<>>)
           \o UniqueFrom(chars, i + 1)

\* bin(ord(char))[2:].zfill(7)
Ascii7(c) == ZFill(Bin(c), AsciiWidth)

\* header, the last loop: ascii + Elias(len(code)) + code for each character
\* of get_unique_characters().
RECURSIVE SymTable(_, _)
SymTable(huff, str) ==
    IF str = <<>> THEN <<>>
    ELSE LET huffman_code == huff[Head(str) - Base].s
         IN  Ascii7(Head(str)) \o EliasEncoding(Len(huffman_code)) \o huffman_code
               \o SymTable(huff, Tail(str))

\* Compress.header on self.text = t, from the fields the constructor set.
Header(t) ==
    LET counted == CountChars(ZeroTable, t)
        uniq    == UniqueFrom(counted.characters, 0)
        lengths == EliasEncoding(Len(t)) \o EliasEncoding(Len(uniq))
        huff    == HuffManEncoding(counted.characters, uniq)
    IN  IF counted.err # "none"
        THEN [err |-> counted.err, characters |-> counted.characters,
              unique |-> <<>>, to_write |-> <<>>]
        ELSE IF huff.err # "none"
        THEN [err |-> huff.err, characters |-> huff.character,
              unique |-> huff.unique, to_write |-> lengths]
        ELSE [err        |-> "none",
              characters |-> huff.character,
              unique     |-> huff.unique,
              to_write   |-> lengths \o SymTable(huff.character, huff.unique[1][2])]

\* RunLoop with the counter not reset after a pair is emitted.
RECURSIVE RunLoopNoReset(_, _, _, _)
RunLoopNoReset(bwt, char, cnt, out) ==
    IF char < Len(bwt) - 1
    THEN IF bwt[char + 1] = bwt[char + 2]
         THEN RunLoopNoReset(bwt, char + 1, cnt + 1, out)
         ELSE RunLoopNoReset(bwt, char + 1, cnt, Append(out, <<bwt[char + 1], cnt>>))
    ELSE Append(out, <<bwt[Len(bwt)], cnt>>)

RECURSIVE RunLoopNoTail(_, _, _, _)
RunLoopNoTail(bwt, char, cnt, out) ==
    IF char < Len(bwt) - 1
    THEN IF bwt[char + 1] = bwt[char + 2]
         THEN RunLoopNoTail(bwt, char + 1, cnt + 1, out)
         ELSE RunLoopNoTail(bwt, char + 1, 1, Append(out, <<bwt[char + 1], cnt>>))
    ELSE out

\* message, the loop over bwt_string and the emission after it: the
\* (character, counter) pairs in the order they are emitted.
RECURSIVE RunLoop(_, _, _, _)
RunLoop(bwt, char, cnt, out) ==
    IF char < Len(bwt) - 1
    THEN IF bwt[char + 1] = bwt[char + 2]
         THEN RunLoop(bwt, char + 1, cnt + 1, out)
         ELSE RunLoop(bwt, char + 1, 1, Append(out, <<bwt[char + 1], cnt>>))
    ELSE Append(out, <<bwt[Len(bwt)], cnt>>)

MessageRuns(bwt) == RunLoop(bwt, 0, 1, <<>>)

\* message: huffman_code + elias for each emitted pair.  The code is read at
\* index ord(char) - 36 of the table, negative indices from the end.
RECURSIVE EncodeRuns(_, _)
EncodeRuns(huff, runs) ==
    IF runs = <<>> THEN [err |-> "none", bits |-> <<>>]
    ELSE LET index == PyIndex(Head(runs)[1] - Base)
             rest  == EncodeRuns(huff, Tail(runs))
         IN  IF index = None THEN [err |-> "IndexError", bits |-> <<>>]
             ELSE IF ~huff[index].isstr THEN [err |-> "TypeError", bits |-> <<>>]
             ELSE IF rest.err # "none" THEN rest
             ELSE [err  |-> "none",
                   bits |-> huff[index].s \o EliasEncoding(Head(runs)[2]) \o rest.bits]

\* Compress.message
Message(huff, t) ==
    LET bwt == BWT_Encoding(t)
        enc == EncodeRuns(huff, MessageRuns(bwt))
    IN  [err |-> enc.err, bwt_string |-> bwt, bits |-> enc.bits,
         runs |-> IF enc.err = "none" THEN MessageRuns(bwt) ELSE <<>>]

\* PackBytes without the last, partly filled byte.
RECURSIVE PackBytesWhole(_)
PackBytesWhole(bits) ==
    IF Len(bits) >= ByteWidth
    THEN <<IntOfBits(SubSeq(bits, 1, ByteWidth))>>
           \o PackBytesWhole(SubSeq(bits, ByteWidth + 1, Len(bits)))
    ELSE <<>>

\* write: the bytes handed to file.write, eight bits at a time, the last ones
\* filled up with "0".
RECURSIVE PackBytes(_)
PackBytes(bits) ==
    IF Len(bits) >= ByteWidth
    THEN <<IntOfBits(SubSeq(bits, 1, ByteWidth))>>
           \o PackBytes(SubSeq(bits, ByteWidth + 1, Len(bits)))
    ELSE IF Len(bits) > 0
    THEN <<IntOfBits(bits \o [j \in 1..(ByteWidth - Len(bits)) |-> 0])>>
    ELSE <<>>

\* write: what is left in self.to_write when the method returns.
LeftToWrite(bits) ==
    LET r == Len(bits) % ByteWidth
    IN  IF r = 0 THEN <<>>
        ELSE SubSeq(bits, Len(bits) - r + 1, Len(bits)) \o [j \in 1..(ByteWidth - r) |-> 0]

-----------------------------------------------------------------------------
(* ReadBinaryFile, HuffmanDecoding (src/bwtunzip.py)                       *)

\* ReadBinaryFile.read: ''.join(format(byte, '08b') for byte in f.read())
RECURSIVE ReadBits(_)
ReadBits(bytes) ==
    IF bytes = <<>> THEN <<>>
    ELSE ZFill(Bin(Head(bytes)), ByteWidth) \o ReadBits(Tail(bytes))

\* The trie is the function from the path of each Node that exists (the bits
\* from the root) to its payload; the root is the empty path.
EmptyTrie == [p \in {<<>>} |-> None]

Prefixes(code) == {SubSeq(code, 1, k) : k \in 0..Len(code)}

\* generate_huffman_tree, one character: the nodes on the path are created
\* where missing and the last one gets the payload.
TrieInsert(trie, char, code) ==
    [p \in (DOMAIN trie) \cup Prefixes(code) |->
        IF p = code THEN char
        ELSE IF p \in DOMAIN trie THEN trie[p] ELSE None]

RECURSIVE GenerateTree(_, _)
GenerateTree(trie, uchars) ==
    IF uchars = <<>> THEN trie
    ELSE GenerateTree(TrieInsert(trie, Head(uchars)[1], Head(uchars)[2]), Tail(uchars))

\* HuffmanDecoding.decode: the walk from the root over bit_string[start:].
\* A missing child makes current_node None and current_node.payload raises
\* AttributeError; running out of bits returns (None, None).
RECURSIVE HuffmanWalk(_, _, _, _, _)
HuffmanWalk(trie, bs, start, node, index_counter) ==
    IF start + index_counter >= Len(bs)
    THEN [err |-> "none", payload |-> None, end |-> None]
    ELSE LET child == Append(node, bs[start + index_counter + 1])
         IN  IF child \notin DOMAIN trie
             THEN [err |-> "AttributeError", payload |-> None, end |-> None]
             ELSE IF trie[child] # None
             THEN [err |-> "none", payload |-> trie[child],
                   end |-> index_counter + 1 + start]
             ELSE HuffmanWalk(trie, bs, start, child, index_counter + 1)

HuffmanDecode(trie, bs, start) == HuffmanWalk(trie, bs, start, <<>>, 0)

-----------------------------------------------------------------------------
(* Decompress (src/bwtunzip.py)                                            *)

\* decode_header, the loop over range(no_unique).  int("", 2) of an empty
\* slice raises ValueError; a slice cut short by the end of the string is
\* converted as it is.
RECURSIVE HeaderLoop(_, _, _, _)
HeaderLoop(bs, remaining, endi, uchars) ==
    IF remaining <= 0
    THEN [err |-> "none", end_index |-> endi, unique_chars |-> uchars]
    ELSE LET ascii == Slice(bs, endi, endi + AsciiWidth)
             el    == EliasDecoding(bs, endi + AsciiWidth)
             code  == Slice(bs, el.end_pointer, el.end_pointer + el.decoded)
         IN  IF ascii = <<>>
             THEN [err |-> "ValueError", end_index |-> endi, unique_chars |-> uchars]
             ELSE HeaderLoop(bs, remaining - 1, el.end_pointer + el.decoded,
                             Append(uchars, <<IntOfBits(ascii), code>>))

\* Decompress.decode_header
DecodeHeaderOp(bs) ==
    LET len == EliasDecoding(bs, 0)
        uni == EliasDecoding(bs, len.end_pointer)
        lp  == HeaderLoop(bs, uni.decoded, uni.end_pointer, <<>>)
    IN  [err |-> lp.err, text_length |-> len.decoded, no_unique |-> uni.decoded,
         end_index |-> lp.end_index, unique_chars |-> lp.unique_chars]

\* Decompress.decode_data
RECURSIVE DataLoop(_, _, _, _)
DataLoop(trie, bs, endi, bwt) ==
    IF endi < Len(bs)
    THEN LET h  == HuffmanDecode(trie, bs, endi)
             el == EliasDecoding(bs, h.end)
         IN  IF h.err # "none"
             THEN [err |-> h.err, end_index |-> endi, bwt_text |-> bwt]
             ELSE IF h.payload = None
             THEN [err |-> "none", end_index |-> None, bwt_text |-> bwt]
             ELSE DataLoop(trie, bs, el.end_pointer, bwt \o Repeat(h.payload, el.decoded))
    ELSE [err |-> "none", end_index |-> endi, bwt_text |-> bwt]

-----------------------------------------------------------------------------
(* BWT_Decoding (src/bwtunzip.py)                                          *)

\* sorted(bwt_text)
Sorted(s) ==
    [k \in 1..Len(s) |->
        CHOOSE c \in {s[j] : j \in 1..Len(s)} :
            /\ Cardinality({j \in 1..Len(s) : s[j] < c}) < k
            /\ k <= Cardinality({j \in 1..Len(s) : s[j] <= c})]

\* rank_order, the loop: rank, order and order_checker after the iterations
\* char .. len(first_column) - 1.
RECURSIVE RankOrderLoop(_, _, _, _, _, _)
RankOrderLoop(bwt, first_column, char, rnk, ord, order_checker) ==
    IF char >= Len(first_column)
    THEN [err |-> "none", rank |-> rnk, order |-> ord]
    ELSE LET ri    == PyIndex(first_column[char + 1] - Base)
             index == PyIndex(bwt[char + 1] - Base)
         IN  IF ri = None \/ index = None
             THEN [err |-> "IndexError", rank |-> rnk, order |-> ord]
             ELSE LET rnk2 == IF rnk[ri] = None THEN [rnk EXCEPT ![ri] = char] ELSE rnk
                      oc2  == [order_checker EXCEPT ![index] = @ + 1]
                  IN  RankOrderLoop(bwt, first_column, char + 1, rnk2,
                                    [ord EXCEPT ![char + 1] = oc2[index]], oc2)

\* BWT_Decoding.__init__ up to and including rank_order()
RankOrder(bwt) ==
    RankOrderLoop(bwt, Sorted(bwt), 0,
                  [j \in 0..(TableSize - 1) |-> None],
                  [j \in 1..Len(bwt) |-> 0],
                  [j \in 0..(TableSize - 1) |-> 0])

\* Formula without the order of the occurrence: every occurrence of a
\* character leads to the first row of that character.
FormulaFirstRow(bwt, rnk, ord, cnt) ==
    rnk[PyIndex(bwt[cnt + 1] - Base)]

\* BWT_Decoding.formula
Formula(bwt, rnk, ord, cnt) ==
    rnk[PyIndex(bwt[cnt + 1] - Base)] + ord[cnt + 1] - 1

-----------------------------------------------------------------------------
(* Inputs of the runs.                                                     *)

\* The characters of the input texts: '#' (below the table), '$', 'a', 'b',
\* '~' (the last cell of the table) and DEL (above the table).
Alphabet == {35, 36, 97, 98, 126, 127}

\* The characters the texts given to the BWT encoder on its own are made of.
BwtAlphabet == {37, 97, 126}

\* The symbols of the frequency tables given to HuffManEncoding on its own.
HuffSymbols == {36, 97, 98, 99}

\* The symbols of the buffers of hand-made streams.
ForgedSymbols == {36, 97, 98}

InputTexts == SeqsOver(Alphabet, 0, MaxLen)

\* The frequency tables as Compress.header builds them before it calls
\* HuffManEncoding: a count per symbol, 0 for a symbol that is absent, and at
\* least one symbol present (header always counts the '$' of the text).
FreqTables ==
    {[j \in 0..(TableSize - 1) |->
        IntCell(IF (j + Base) \in HuffSymbols THEN f[j + Base] ELSE 0)] :
     f \in {g \in [HuffSymbols -> 0..MaxCount] : \E c \in HuffSymbols : g[c] > 0}}

\* A stream in the wire format that says the text has n characters and
\* carries the buffer buf as its payload, with the Huffman table of buf.
ForgedStream(n, buf) ==
    LET counted == CountChars(ZeroTable, buf)
        uniq    == UniqueFrom(counted.characters, 0)
        huff    == HuffManEncoding(counted.characters, uniq)
    IN  PackBytes(EliasEncoding(n) \o EliasEncoding(Len(uniq))
                    \o SymTable(huff.character, huff.unique[1][2])
                    \o EncodeRuns(huff.character, MessageRuns(buf)).bits)

ForgedFiles ==
    {ForgedStream(n, buf) :
        n \in 1..(MaxForged + 1),
        buf \in {b \in SeqsOver(ForgedSymbols, 2, MaxForged) :
                    Cardinality({b[j] : j \in 1..Len(b)}) >= 2}}

\* The first bytes of such a stream: a file cut short, the empty file included.
TruncatedFiles ==
    UNION {{SubSeq(f, 1, k) : k \in 0..(Len(f) - 1)} : f \in ForgedFiles}

\* A stream whose table holds one character only, with the code "0", followed
\* by some payload bits: the trie built from it has no branch for the bit 1.
OneCodeFiles ==
    {PackBytes(EliasEncoding(n) \o EliasEncoding(1) \o Ascii7(c)
                 \o EliasEncoding(1) \o <<0>> \o payload) :
        n \in 1..MaxForged, c \in ForgedSymbols, payload \in BitStrings(0, MaxSuffix)}

NoFile      == [exists |-> FALSE, bytes |-> <<>>]
NoRecovered == [exists |-> FALSE, text |-> <<>>]
NoRank      == [j \in 0..(TableSize - 1) |-> None]

IdleIo    == input = <<>> /\ file = NoFile /\ recovered = NoRecovered
IdleComp  == /\ text = <<>> /\ characters = ZeroTable /\ unique = <<>>
             /\ to_write = <<>> /\ bwt_string = <<>> /\ emitted = <<>>
IdleDec   == /\ bit_string = <<>> /\ text_length = 0 /\ no_unique = 0
             /\ end_index = 0 /\ unique_chars = <<>> /\ huffman_tree = EmptyTrie
             /\ bwt_text = <<>> /\ dtext = <<>>
IdleBwt   == /\ rank = NoRank /\ order = <<>> /\ answer = <<>>
             /\ counter = 0 /\ walk_i = 0
IdleElias == /\ arg_value = 0 /\ value = 0 /\ elias_string = <<>>
             /\ start_index = 0 /\ decoded = 0 /\ end_pointer = 0

-----------------------------------------------------------------------------
(* The compressor: Compress(text, "bwtencoded.bin")                        *)

\* Compress.__init__ up to the call of header(): '$' is appended, the output
\* file is opened for writing (created or emptied), the fields are set.
CompressInit ==
    /\ pc = "c_init"
    /\ text' = input \o <<Dollar>>
    /\ file' = [exists |-> TRUE, bytes |-> <<>>]
    /\ unique' = <<>>
    /\ characters' = ZeroTable
    /\ to_write' = <<>>
    /\ pc' = "c_header"
    /\ UNCHANGED <<err, input, recovered, bwt_string, emitted, decVars, bwtVars, eliasVars>>

\* Compress.header
CompressHeader ==
    /\ pc = "c_header"
    /\ LET r == Header(text)
       IN  /\ characters' = r.characters
           /\ unique' = r.unique
           /\ to_write' = to_write \o r.to_write
           /\ err' = r.err
           /\ pc' = IF r.err = "none" THEN "c_message" ELSE "c_failed"
    /\ UNCHANGED <<ioVars, text, bwt_string, emitted, decVars, bwtVars, eliasVars>>

\* Compress.message
CompressMessage ==
    /\ pc = "c_message"
    /\ LET m == Message(characters, text)
       IN  /\ bwt_string' = m.bwt_string
           /\ to_write' = to_write \o m.bits
           /\ emitted' = m.runs
           /\ err' = m.err
           /\ pc' = IF m.err = "none" THEN "c_write" ELSE "c_failed"
    /\ UNCHANGED <<ioVars, text, characters, unique, decVars, bwtVars, eliasVars>>

\* Compress.write, with the close of the file
CompressWrite ==
    /\ pc = "c_write"
    /\ file' = [exists |-> TRUE, bytes |-> PackBytes(to_write)]
    /\ to_write' = LeftToWrite(to_write)
    /\ pc' = "c_done"
    /\ UNCHANGED <<err, input, recovered, text, characters, unique, bwt_string,
                   emitted, decVars, bwtVars, eliasVars>>

-----------------------------------------------------------------------------
(* The decompressor: Decompress(filename)                                  *)

\* Decompress.__init__ up to the call of run(): the file is read into the bit
\* string and the fields are set.
DecompressInit ==
    /\ pc \in {"c_done", "d_init"}
    /\ bit_string' = ReadBits(file.bytes)
    /\ text_length' = 0
    /\ no_unique' = 0
    /\ end_index' = 0
    /\ unique_chars' = <<>>
    /\ huffman_tree' = EmptyTrie
    /\ bwt_text' = <<>>
    /\ dtext' = <<>>
    /\ pc' = "d_header"
    /\ UNCHANGED <<err, ioVars, compVars, bwtVars, eliasVars>>

\* Decompress.decode_header
DecodeHeader ==
    /\ pc = "d_header"
    /\ LET r == DecodeHeaderOp(bit_string)
       IN  /\ text_length' = r.text_length
           /\ no_unique' = r.no_unique
           /\ end_index' = r.end_index
           /\ unique_chars' = r.unique_chars
           /\ err' = r.err
           /\ pc' = IF r.err = "none" THEN "d_tree" ELSE "d_failed"
    /\ UNCHANGED <<ioVars, compVars, bit_string, huffman_tree, bwt_text, dtext,
                   bwtVars, eliasVars>>

\* Decompress.generate_huffman_tree
GenerateHuffmanTree ==
    /\ pc = "d_tree"
    /\ huffman_tree' = GenerateTree(EmptyTrie, unique_chars)
    /\ pc' = "d_data"
    /\ UNCHANGED <<err, ioVars, compVars, bit_string, text_length, no_unique,
                   end_index, unique_chars, bwt_text, dtext, bwtVars, eliasVars>>

\* Decompress.decode_data
DecodeData ==
    /\ pc = "d_data"
    /\ LET r == DataLoop(huffman_tree, bit_string, end_index, bwt_text)
       IN  /\ bwt_text' = r.bwt_text
           /\ end_index' = r.end_index
           /\ err' = r.err
           /\ pc' = IF r.err = "none" THEN "d_bwt" ELSE "d_failed"
    /\ UNCHANGED <<ioVars, compVars, bit_string, text_length, no_unique,
                   unique_chars, huffman_tree, dtext, bwtVars, eliasVars>>

\* Decompress.decode_bwt, first part: BWT_Decoding.__init__ with rank_order().
\* The loop of decode is not entered when answer is empty.
BwtRankOrder ==
    /\ pc = "d_bwt"
    /\ LET r == RankOrder(bwt_text)
       IN  /\ rank' = r.rank
           /\ order' = r.order
           /\ err' = r.err
           /\ pc' = IF r.err # "none" THEN "d_failed"
                    ELSE IF Len(bwt_text) - 1 > 0 THEN "d_walk" ELSE "d_join"
    /\ answer' = [j \in 1..(Len(bwt_text) - 1) |-> None]
    /\ counter' = 0
    /\ walk_i' = Len(bwt_text) - 2
    /\ UNCHANGED <<ioVars, compVars, decVars, eliasVars>>

\* BWT_Decoding.decode, one iteration of the loop: break on '$', otherwise
\* write the character and follow the formula.
BwtDecodeStep ==
    /\ pc = "d_walk"
    /\ IF bwt_text[counter + 1] = Dollar
       THEN /\ pc' = "d_join"
            /\ UNCHANGED <<answer, counter, walk_i>>
       ELSE /\ answer' = [answer EXCEPT ![walk_i + 1] = bwt_text[counter + 1]]
            /\ counter' = Formula(bwt_text, rank, order, counter)
            /\ walk_i' = walk_i - 1
            /\ pc' = IF walk_i - 1 >= 0 THEN "d_walk" ELSE "d_join"
    /\ UNCHANGED <<err, ioVars, compVars, decVars, rank, order, eliasVars>>

BwtDecodeJoinUnchecked ==
    /\ pc = "d_join"
    /\ IF \E j \in 1..Len(answer) : answer[j] = None
       THEN /\ err' = "TypeError"
            /\ pc' = "d_write"
            /\ UNCHANGED dtext
       ELSE /\ dtext' = answer
            /\ pc' = "d_write"
            /\ UNCHANGED err
    /\ UNCHANGED <<ioVars, compVars, bit_string, text_length, no_unique, end_index,
                   unique_chars, huffman_tree, bwt_text, bwtVars, eliasVars>>

\* BWT_Decoding.decode after the loop, and get_text: ''.join(answer) raises
\* TypeError when a cell of answer is still None.
BwtDecodeJoin ==
    /\ pc = "d_join"
    /\ IF \E j \in 1..Len(answer) : answer[j] = None
       THEN /\ err' = "TypeError"
            /\ pc' = "d_failed"
            /\ UNCHANGED dtext
       ELSE /\ dtext' = answer
            /\ pc' = "d_write"
            /\ UNCHANGED err
    /\ UNCHANGED <<ioVars, compVars, bit_string, text_length, no_unique, end_index,
                   unique_chars, huffman_tree, bwt_text, bwtVars, eliasVars>>

\* Decompress.write: print_result(self.text)
DecompressWrite ==
    /\ pc = "d_write"
    /\ recovered' = [exists |-> TRUE, text |-> dtext]
    /\ pc' = "d_done"
    /\ UNCHANGED <<err, input, file, compVars, decVars, bwtVars, eliasVars>>

Init ==
    /\ err = "none"
    /\ IdleComp /\ IdleDec /\ IdleBwt /\ IdleElias
    /\ recovered = NoRecovered
    /\ \/ pc = "c_init" /\ input \in InputTexts /\ file = NoFile
       \/ /\ pc = "d_init" /\ input = <<>>
          /\ file \in {[exists |-> TRUE, bytes |-> b] :
                         b \in ForgedFiles \cup TruncatedFiles \cup OneCodeFiles}

Next ==
    \/ CompressInit
    \/ CompressHeader
    \/ CompressMessage
    \/ CompressWrite
    \/ DecompressInit
    \/ DecodeHeader
    \/ GenerateHuffmanTree
    \/ DecodeData
    \/ BwtRankOrder
    \/ BwtDecodeStep
    \/ BwtDecodeJoin
    \/ DecompressWrite

Spec == Init /\ [][Next]_vars

-----------------------------------------------------------------------------
(* EliasEncoding and EliasDecoding on their own.  An integer is encoded,   *)
(* the code is followed by some bits and decoded from index 0; or a bit    *)
(* string is decoded as it is from some start index.                       *)

\* EliasEncoding(arg_value); the bits that follow the code are the ones
\* bit_string holds before.
EliasEncode ==
    /\ pc = "e_encode"
    /\ LET o == EliasEncodingObj(arg_value)
       IN  /\ value' = o.value
           /\ elias_string' = o.elias_string
           /\ bit_string' = o.elias_string \o bit_string
    /\ pc' = "e_decode"
    /\ UNCHANGED <<err, ioVars, compVars, text_length, no_unique, end_index,
                   unique_chars, huffman_tree, bwt_text, dtext, bwtVars,
                   arg_value, start_index, decoded, end_pointer>>

\* EliasDecoding(bit_string, start_index)
EliasDecode ==
    /\ pc = "e_decode"
    /\ LET r == EliasDecoding(bit_string, start_index)
       IN  /\ decoded' = r.decoded
           /\ end_pointer' = r.end_pointer
    /\ pc' = "e_done"
    /\ UNCHANGED <<err, ioVars, compVars, decVars, bwtVars,
                   arg_value, value, elias_string, start_index>>

InitElias ==
    /\ err = "none"
    /\ IdleIo /\ IdleComp /\ IdleBwt
    /\ text_length = 0 /\ no_unique = 0 /\ end_index = 0 /\ unique_chars = <<>>
    /\ huffman_tree = EmptyTrie /\ bwt_text = <<>> /\ dtext = <<>>
    /\ elias_string = <<>> /\ decoded = 0 /\ end_pointer = 0
    /\ \/ /\ pc = "e_encode"
          /\ arg_value \in 1..MaxValue
          /\ value = arg_value
          /\ bit_string \in BitStrings(0, MaxSuffix)
          /\ start_index = 0
       \/ /\ pc = "e_decode"
          /\ arg_value = 0
          /\ value = 0
          /\ bit_string \in BitStrings(0, MaxBits)
          /\ start_index \in 0..(MaxBits + 1)
          /\ start_index <= Len(bit_string) + 1

NextElias == EliasEncode \/ EliasDecode

SpecElias == InitElias /\ [][NextElias]_vars

-----------------------------------------------------------------------------
(* HuffManEncoding on its own, on any frequency table.                     *)

\* HuffManEncoding(characters, unique)
HuffmanBuild ==
    /\ pc = "h_build"
    /\ LET r == HuffManEncoding(characters, unique)
       IN  /\ characters' = r.character
           /\ unique' = r.unique
           /\ err' = r.err
           /\ pc' = IF r.err = "none" THEN "h_done" ELSE "h_failed"
    /\ UNCHANGED <<ioVars, text, to_write, bwt_string, emitted, decVars, bwtVars,
                   eliasVars>>

InitHuffman ==
    /\ pc = "h_build"
    /\ err = "none"
    /\ IdleIo /\ IdleDec /\ IdleBwt /\ IdleElias
    /\ text = <<>> /\ to_write = <<>> /\ bwt_string = <<>> /\ emitted = <<>>
    /\ characters \in FreqTables
    /\ unique = UniqueFrom(characters, 0)

NextHuffman == HuffmanBuild

SpecHuffman == InitHuffman /\ [][NextHuffman]_vars

-----------------------------------------------------------------------------
(* BWT_Encoding and BWT_Decoding on their own: the text with its '$' is    *)
(* transformed and the result is given to BWT_Decoding.                    *)

\* BWT_Encoding(text).get_bwt_string(), handed to BWT_Decoding
BwtEncode ==
    /\ pc = "b_encode"
    /\ bwt_string' = BWT_Encoding(text)
    /\ bwt_text' = BWT_Encoding(text)
    /\ pc' = "d_bwt"
    /\ UNCHANGED <<err, ioVars, text, characters, unique, to_write, emitted, bit_string,
                   text_length, no_unique, end_index, unique_chars, huffman_tree,
                   dtext, bwtVars, eliasVars>>

InitBwt ==
    /\ pc = "b_encode"
    /\ err = "none"
    /\ IdleIo /\ IdleDec /\ IdleBwt /\ IdleElias
    /\ characters = ZeroTable /\ unique = <<>> /\ to_write = <<>> /\ bwt_string = <<>>
    /\ emitted = <<>>
    /\ text \in {t \o <<Dollar>> : t \in SeqsOver(BwtAlphabet, 0, MaxBwtLen)}

NextBwt == BwtEncode \/ BwtRankOrder \/ BwtDecodeStep \/ BwtDecodeJoin

SpecBwt == InitBwt /\ [][NextBwt]_vars

-----------------------------------------------------------------------------
(* Compress.message on its own: a Compress object on which header() has    *)
(* run is given to message().                                              *)

\* The code table message() reads: the one header() leaves for the text.  For
\* the text "$" on its own header() builds no code (HuffManEncoding raises on
\* a table of one symbol), so '$' is given the one-bit code "0" there.
CodesFor(t) ==
    LET h == Header(t)
    IN  IF h.err = "none" THEN h
        ELSE [err        |-> "none",
              characters |-> [ZeroTable EXCEPT ![Dollar - Base] = StrCell(<<0>>)],
              unique     |-> <<(<<1, <<Dollar>> >>)>>,
              to_write   |-> <<>>]

InitRuns ==
    /\ pc = "c_message"
    /\ err = "none"
    /\ IdleDec /\ IdleBwt /\ IdleElias
    /\ recovered = NoRecovered
    /\ file = [exists |-> TRUE, bytes |-> <<>>]
    /\ input \in SeqsOver(BwtAlphabet, 0, MaxBwtLen)
    /\ text = input \o <<Dollar>>
    /\ characters = CodesFor(text).characters
    /\ unique = CodesFor(text).unique
    /\ to_write = CodesFor(text).to_write
    /\ bwt_string = <<>>
    /\ emitted = <<>>

NextRuns == CompressMessage

SpecRuns == InitRuns /\ [][NextRuns]_vars

-----------------------------------------------------------------------------
(* Properties.                                                             *)

CharsOf(s) == {s[j] : j \in 1..Len(s)}

CountOf(s, c) == Cardinality({j \in 1..Len(s) : s[j] = c})

\* A text Compress is specified for: at least one character, all of them in
\* 0x25..0x7E.
ValidText(t) == Len(t) >= 1 /\ \A j \in 1..Len(t) : t[j] >= 37 /\ t[j] <= 126

\* C1: Round trip.  For every input text of length >= 1 over 0x25..0x7E,
\* Compress and then Decompress on the bytes it wrote both run to their end
\* and recovered.txt holds the input text, character for character.
RoundTrip ==
    ValidText(input) =>
        /\ pc \notin {"c_failed", "d_failed"}
        /\ pc = "d_done" => recovered = [exists |-> TRUE, text |-> input]

RoundTripWitness ==
    /\ pc = "d_done"
    /\ ValidText(input)
    /\ Len(input) = 4
    /\ Cardinality(CharsOf(input)) = 3

\* C2: Elias bijection.  For every integer v >= 1 and every bit string s,
\* EliasDecoding at index 0 of EliasEncoding(v) followed by s returns v and
\* the length of EliasEncoding(v), the index where s starts.
EliasBijection ==
    (pc = "e_done" /\ arg_value >= 1) =>
        /\ IsPrefix(elias_string, bit_string)
        /\ decoded = arg_value
        /\ end_pointer = Len(elias_string)

EliasBijectionWitness ==
    /\ pc = "e_done"
    /\ arg_value = 16
    /\ Len(bit_string) = Len(elias_string) + 2
    /\ decoded = 16

\* C3: BWT bijection.  For every text T over 0x25..0x7E, the empty text
\* included, BWT_Decoding of BWT_Encoding(T + '$') ends without an error and
\* returns exactly T.
BwtBijection ==
    /\ pc # "d_failed"
    /\ pc = "d_write" => dtext \o <<Dollar>> = text

BwtBijectionWitness ==
    /\ pc = "d_write"
    /\ Len(dtext) >= 3
    /\ Cardinality(CharsOf(dtext)) >= 2

\* The symbols of a frequency table: the cells that hold a count or a code.
Present(chars) == {j \in 0..(TableSize - 1) : chars[j].isstr \/ chars[j].n > 0}

PrefixFree(chars) ==
    \A j \in Present(chars) :
        /\ chars[j].isstr
        /\ Len(chars[j].s) >= 1
        /\ \A k \in Present(chars) \ {j} : ~IsPrefix(chars[j].s, chars[k].s)

\* C4: Huffman prefix-freeness.  For any frequency table, HuffManEncoding
\* ends without an error, every symbol with a nonzero count has a nonempty
\* code, and no code is a prefix of the code of a different symbol.
HuffmanPrefixFree ==
    pc # "h_build" => (pc = "h_done" /\ PrefixFree(characters))

\* What does hold of HuffManEncoding (not one of the claims): on a table of
\* two or more symbols it ends without an error with a prefix-free code.
HuffmanPrefixFreeTwoSymbols ==
    (pc # "h_build" /\ Cardinality(Present(characters)) >= 2) =>
        (pc = "h_done" /\ PrefixFree(characters))

\* C5: Sentinel uniqueness and the end of the inverse BWT.  The BWT of
\* T + '$' holds exactly one '$'; while the walk of BWT_Decoding.decode has
\* characters left to write, the row it is at does not hold '$'; and when the
\* walk has ended every character is written and the row it is at holds '$'.
SentinelWalk ==
    /\ pc # "b_encode" => CountOf(bwt_text, Dollar) = 1
    /\ pc = "d_walk" => (walk_i >= 0 /\ bwt_text[counter + 1] # Dollar)
    /\ pc = "d_join" =>
          /\ walk_i = -1
          /\ \A j \in 1..Len(answer) : answer[j] # None
          /\ bwt_text[counter + 1] = Dollar

SentinelWalkWitness ==
    /\ pc = "d_join"
    /\ Len(answer) >= 3
    /\ counter > 0

\* C6 as amended: EliasEncoding produces "1" for 1, "010" for 2, "000101" for
\* 5 and "0011000" for 8, and EliasDecoding maps each of these four bit
\* strings back to its integer.
EliasReference ==
    /\ (pc # "e_encode" /\ arg_value = 1) => elias_string = <<1>>
    /\ (pc # "e_encode" /\ arg_value = 2) => elias_string = <<0, 1, 0>>
    /\ (pc # "e_encode" /\ arg_value = 5) => elias_string = <<0, 0, 0, 1, 0, 1>>
    /\ (pc # "e_encode" /\ arg_value = 8) => elias_string = <<0, 0, 1, 1, 0, 0, 0>>
    /\ (pc = "e_done" /\ start_index = 0) =>
          /\ bit_string = <<1>> => (decoded = 1 /\ end_pointer = 1)
          /\ bit_string = <<0, 1, 0>> => (decoded = 2 /\ end_pointer = 3)
          /\ bit_string = <<0, 0, 0, 1, 0, 1>> => (decoded = 5 /\ end_pointer = 6)
          /\ bit_string = <<0, 0, 1, 1, 0, 0, 0>> => (decoded = 8 /\ end_pointer = 7)

EliasReferenceWitness ==
    /\ pc = "e_done"
    /\ arg_value = 8
    /\ bit_string = <<0, 0, 1, 1, 0, 0, 0>>
    /\ decoded = 8

\* C6 as stated: EliasEncoding produces "1" for 1, "010" for 2, "00101" for 5
\* and "0001000" for 8, and EliasDecoding maps each of these four bit strings
\* back to its integer.
EliasReferenceAsStated ==
    /\ (pc # "e_encode" /\ arg_value = 1) => elias_string = <<1>>
    /\ (pc # "e_encode" /\ arg_value = 2) => elias_string = <<0, 1, 0>>
    /\ (pc # "e_encode" /\ arg_value = 5) => elias_string = <<0, 0, 1, 0, 1>>
    /\ (pc # "e_encode" /\ arg_value = 8) => elias_string = <<0, 0, 0, 1, 0, 0, 0>>
    /\ (pc = "e_done" /\ start_index = 0) =>
          /\ bit_string = <<1>> => decoded = 1
          /\ bit_string = <<0, 1, 0>> => decoded = 2
          /\ bit_string = <<0, 0, 1, 0, 1>> => decoded = 5
          /\ bit_string = <<0, 0, 0, 1, 0, 0, 0>> => decoded = 8

\* The bits Compress.message adds for a list of (character, counter) pairs.
PayloadOf(runs) == EncodeRuns(characters, runs).bits

\* C7 as amended: for T = "aaaa" the compressor's BWT of "aaaa$" is "aaaa$"
\* and the payload consists of exactly the two runs (a,4), ($,1) in that
\* order.
ScenarioRepeated ==
    (pc = "c_write" /\ input = <<97, 97, 97, 97>>) =>
        /\ bwt_string = <<97, 97, 97, 97, 36>>
        /\ to_write = Header(text).to_write \o PayloadOf(<<(<<97, 4>>), (<<36, 1>>)>>)

ScenarioRepeatedWitness ==
    /\ pc = "c_write"
    /\ input = <<97, 97, 97, 97>>
    /\ Len(to_write) > 0

\* C7 as stated: for T = "aaaa" the compressor's BWT of "aaaa$" is "a$aaaa"
\* and the payload consists of exactly the three runs (a,1), ($,1), (a,4).
ScenarioRepeatedAsStated ==
    (pc = "c_write" /\ input = <<97, 97, 97, 97>>) =>
        /\ bwt_string = <<97, 36, 97, 97, 97, 97>>
        /\ to_write = Header(text).to_write
                        \o PayloadOf(<<(<<97, 1>>), (<<36, 1>>), (<<97, 4>>)>>)

\* A text Compress must reject: a character outside 0x24..0x7E, or a '$'.
RejectedText(t) == \E j \in 1..Len(t) : t[j] < 36 \/ t[j] > 126 \/ t[j] = Dollar

\* C8: Input-domain rejection.  Whenever the text given to Compress holds a
\* character outside 0x24..0x7E or a '$', compression ends in an error and
\* writes no encoded bitstream.
InputDomainRejected ==
    RejectedText(input) =>
        /\ pc \notin {"c_done", "d_header", "d_tree", "d_data", "d_bwt", "d_walk",
                      "d_join", "d_write", "d_done", "d_failed"}
        /\ file.bytes = <<>>

\* C9: A truncated Elias code is an error.  Whenever the bit string ends
\* before the component EliasDecoding is at is complete (the start index at
\* or past the end included), decoding ends in an error; it returns no value
\* with an end index.
TruncatedEliasRejected ==
    (pc = "e_done" /\ end_pointer > Len(bit_string)) => err # "none"

\* C10: A malformed BWT is rejected.  Whenever the buffer Decompress decoded
\* from the payload does not hold exactly one '$', or its length differs from
\* the header value n, decompression ends in an error and no recovered text
\* is written.
MalformedBwtRejected ==
    (pc \in {"d_write", "d_done"}) =>
        /\ CountOf(bwt_text, Dollar) = 1
        /\ Len(bwt_text) = text_length

\* C11: No partial compressor output on failure.  Whenever a run of Compress
\* has ended in an error (raised in header, in message or in write), the
\* output file is as it was before the run: the runs here start without the
\* file, so it does not exist and nothing has been written to it.
NoPartialOutput ==
    pc = "c_failed" => file = NoFile

\* C12: The payload parse stops at n symbols.  For every valid text T, when
\* Decompress.decode_data has finished on the bytes Compress wrote, it has
\* ended without an error, the buffer holds exactly n = len(T) + 1 characters,
\* n being the first value of the header, and the buffer is the BWT string
\* of the encoder: the zero bits that pad the last byte add no character.
PayloadStopsAtN ==
    ValidText(input) =>
        /\ pc # "d_failed"
        /\ pc \in {"d_bwt", "d_walk", "d_join", "d_write", "d_done"} =>
              /\ text_length = Len(input) + 1
              /\ Len(bwt_text) = text_length
              /\ bwt_text = bwt_string

\* decode_data has finished on a file whose padding bits hold the code of a
\* character: the Huffman walk found a leaf in the padding and the Elias
\* decoder ran past the end of the bit string.
PayloadStopsAtNWitness ==
    /\ pc = "d_bwt"
    /\ ValidText(input)
    /\ Len(bit_string) > 0
    /\ end_index > Len(bit_string)
    /\ Len(bwt_text) = Len(input) + 1

\* The string a list of (character, counter) pairs stands for.
RECURSIVE ExpandRuns(_)
ExpandRuns(r) ==
    IF r = <<>> THEN <<>>
    ELSE Repeat(Head(r)[1], Head(r)[2]) \o ExpandRuns(Tail(r))

DecompressPhases ==
    {"d_header", "d_tree", "d_data", "d_bwt", "d_walk", "d_join", "d_write"}

\* One step of a run that follows the order header parse, trie build, payload
\* parse, inverse BWT, write.
PhaseStep ==
    /\ pc' = "d_header" => pc \in {"c_done", "d_init"}
    /\ pc' = "d_tree" => pc = "d_header"
    /\ pc' = "d_data" => pc = "d_tree"
    /\ pc' = "d_bwt" => pc = "d_data"
    /\ pc' = "d_walk" => pc \in {"d_bwt", "d_walk"}
    /\ pc' = "d_join" => pc \in {"d_bwt", "d_walk"}
    /\ pc' = "d_write" => pc = "d_join"
    /\ pc' = "d_done" => pc = "d_write"
    /\ pc' = "d_failed" => pc \in {"d_header", "d_data", "d_bwt", "d_join"}
    /\ pc \notin {"d_failed", "d_done"}
    /\ pc \in DecompressPhases => (err' # "none" <=> pc' = "d_failed")
    /\ recovered' # recovered => (pc = "d_write" /\ pc' = "d_done" /\ err' = "none")

\* C14: Decompressor phase order.  Every run of Decompress goes through its
\* phases in the order header parse, trie build, payload parse, inverse BWT,
\* write, each phase starting from the end of the one before; an error raised
\* in a phase ends the run, so that no later phase runs; and recovered.txt is
\* written only at the end of a run in which no phase has raised.
PhaseOrder ==
    /\ [][PhaseStep]_vars
    /\ [](pc \in DecompressPhases => err = "none")
    /\ [](recovered.exists => (pc = "d_done" /\ err = "none"))

\* A run on a file that is not the empty file has gone through the four
\* phases and has written recovered.txt.
PhaseOrderWitness ==
    /\ pc = "d_done"
    /\ err = "none"
    /\ recovered.exists
    /\ Len(bwt_text) >= 3
    /\ recovered.text = dtext

=============================================================================
